---- MODULE Spec2Model ----
(***************************************************************************)
(* Verification model of the ENSF Wallet dashboard client core:           *)
(*   - HttpClient.makeRequest (src/src/services/httpClient.js): retry     *)
(*     loop, retryable-error test, backoff, response interceptors;        *)
(*   - AuthService (src/src/services/authService.js): login, refresh,     *)
(*     scheduleTokenRefresh, logout, clearAuthData, storage;              *)
(*   - ApiService, token-key variant (src/src/services/ApiService.js):    *)
(*     makeRequest, refreshAuthToken, logoutAgenceService;                 *)
(*   - useDashboardData (src/unnamed/part_007): initializeDashboard,      *)
(*     refreshData, the fetch operations with their slots, loading and    *)
(*     error entries, combinedStatistics;                                 *)
(*   - the facade operations of ApiService (fetch variant) and of         *)
(*     AgenceService (src/src/services/agenceService.js).                 *)
(*                                                                         *)
(* Time is counted in units of five minutes (the refresh lead of          *)
(* scheduleTokenRefresh).  JavaScript null / undefined are written 0 for  *)
(* refresh tokens, expiry times and timer handles, NoToken for tokens     *)
(* and NOUSER for users.                                                   *)
(***************************************************************************)
EXTENDS Integers, Sequences, FiniteSets, TLC

VARIABLES
  calls,            \* activations of HttpClient.makeRequest, one per caller slot
  currentUser,      \* AuthService.currentUser
  authToken,        \* AuthService.authToken
  refreshToken,     \* AuthService.refreshToken
  tokenExpiryTime,  \* AuthService.tokenExpiryTime
  refreshTimer,     \* AuthService.refreshTimer (handle of the last setTimeout)
  baseAuth,         \* httpClient.baseHeaders['Authorization'] (the token it carries)
  ensf_auth,        \* localStorage entry 'ensf_auth'
  timers,           \* armed setTimeout timers of scheduleTokenRefresh
  now,              \* the clock, new Date().getTime()
  hist,             \* observation of the last operation (what a test would record)
  tokenStore,       \* localStorage items 'authToken' and 'refreshToken' (ApiService)
  api,              \* the running call of the token-key ApiService
  dash,             \* useDashboardData: data slots, loading, errors, pending fetches
  hook,             \* useDashboardData with slot values and overlapping fetches
  facade            \* the facade operation in progress and its result

vars == <<calls, currentUser, authToken, refreshToken, tokenExpiryTime,
          refreshTimer, baseAuth, ensf_auth, timers, now, hist, tokenStore, api,
          dash, hook, facade>>

apiVars == <<tokenStore, api>>

authVars == <<currentUser, authToken, refreshToken, tokenExpiryTime,
              refreshTimer, baseAuth, ensf_auth, timers, now>>

(***************************************************************************)
(* Bounds                                                                  *)
(***************************************************************************)
\* largest options.maxRetries a caller passes (0 stands for "not passed")
MaxRetriesOpt == 4
\* the clock stops advancing here
MaxTime == 2
\* latest exp claim of a token the server issues
MaxExp == 3

(***************************************************************************)
(* apiConfig.js                                                            *)
(***************************************************************************)
MAX_RETRIES == 3
RETRY_DELAY == 1000
EXPONENTIAL_BACKOFF == TRUE

(***************************************************************************)
(* Tokens, users, storage                                                  *)
(***************************************************************************)
\* A bearer token as parseTokenExpiry sees it: the number of dot-separated
\* segments, and what atob + JSON.parse of segment [1] gives:
\*   "undecodable"  atob or JSON.parse throws
\*   "noexp"        an object without exp
\*   "exp"          an object with the numeric claim exp
Token(segs, payload, exp) == [segs |-> segs, payload |-> payload, exp |-> exp]

\* null / undefined
NoToken == Token(0, "undecodable", 0)

JWTs == {Token(3, "exp", e) : e \in 2..MaxExp}

\* payload.exp ? payload.exp * 1000 : null, null on any throw
parseTokenExpiry(token) ==
  IF token = NoToken THEN 0
  ELSE IF token.segs < 2 THEN 0
  ELSE IF token.payload = "undecodable" THEN 0
  ELSE IF token.payload = "noexp" THEN 0
  ELSE token.exp

\* users: NOUSER is null/undefined, CLIENT has roles ['CLIENT'], ADMIN has roles
\* ['ADMIN'], NOROLES is a user object without a roles array
CLIENT == "CLIENT"
ADMIN == "ADMIN"
NOROLES == "NOROLES"
NOUSER == "NOUSER"

\* the refresh tokens the server hands out; 0 is none
RefreshTokens == {1}

Absent ==
  [state |-> "absent", user |-> NOUSER, token |-> NoToken, refreshToken |-> 0,
   tokenExpiryTime |-> 0]

\* 5 * 60 * 1000 ms, one time unit
REFRESH_LEAD == 1

(***************************************************************************)
(* HttpClient                                                              *)
(***************************************************************************)
\* What one fetch attempt ends with.  kind:
\*   "ok"       a response with response.ok, body parsed
\*   "badjson"  a response with response.ok whose JSON body does not parse
\*   "http"     a response with a non-2xx status
\*   "network"  fetch rejected, no response (TypeError)
\*   "timeout"  the attempt's timer aborted the fetch (AbortError)
Statuses == {400, 401, 403, 404, 408, 409, 500, 503}

Outcomes ==
  {[kind |-> "ok", status |-> 200], [kind |-> "badjson", status |-> 200],
   [kind |-> "network", status |-> 0], [kind |-> "timeout", status |-> 0]}
  \cup {[kind |-> "http", status |-> s] : s \in Statuses}

\* the error object caught by makeRequest carries error.response only when
\* it was built from a response (line 219-221)
hasResponse(o) == o.kind = "http"

\* the mutant retries every failure, client errors included
isRetryableError_All4xx(o) ==
  \/ ~hasResponse(o)
  \/ o.status >= 400

isRetryableError(o) ==
  \/ ~hasResponse(o)
  \/ o.status >= 500
  \/ o.status = 408

RECURSIVE pow2(_)
pow2(n) == IF n <= 0 THEN 1 ELSE 2 * pow2(n - 1)

\* the mutant doubles from the first retry on
calculateRetryDelay_FromAttempt(attempt) ==
  IF ~EXPONENTIAL_BACKOFF THEN RETRY_DELAY
  ELSE RETRY_DELAY * pow2(attempt)

calculateRetryDelay(attempt) ==
  IF ~EXPONENTIAL_BACKOFF THEN RETRY_DELAY
  ELSE RETRY_DELAY * pow2(attempt - 1)

\* const maxRetries = options.maxRetries || RETRY_CONFIG.MAX_RETRIES
effectiveMaxRetries(opt) == IF opt = 0 THEN MAX_RETRIES ELSE opt

IdleCall ==
  [pc |-> "idle", opt |-> 0, attempt |-> 0, maxRetries |-> 0, fetches |-> 0,
   outcomes |-> <<>>, slept |-> <<>>, aborted |-> FALSE]

\* entry of makeRequest up to the first await: attempt 1 is dispatched
startRequest(opt) ==
  [pc |-> "fetching", opt |-> opt, attempt |-> 1,
   maxRetries |-> effectiveMaxRetries(opt), fetches |-> 1,
   outcomes |-> <<>>, slept |-> <<>>, aborted |-> FALSE]

\* the mutant stops one attempt early
lastAttempt_OffByOne(c) == c.attempt + 1 >= c.maxRetries

lastAttempt(c) == c.attempt = c.maxRetries

\* the current fetch settles with outcome o: return, throw, or sleep
settle(c, o) ==
  LET c1 == [c EXCEPT !.outcomes = Append(@, o)] IN
  IF o.kind = "ok" THEN [c1 EXCEPT !.pc = "resolved"]
  ELSE IF lastAttempt(c) \/ ~isRetryableError(o)
       THEN [c1 EXCEPT !.pc = "rejected"]
       ELSE [c1 EXCEPT !.pc = "sleeping",
                       !.slept = Append(@, calculateRetryDelay(c.attempt))]

\* the sleep ends: the loop increments attempt and dispatches again
nextAttempt(c) ==
  [c EXCEPT !.pc = "fetching", !.attempt = @ + 1, !.fetches = @ + 1]

Terminal(c) == c.pc \in {"resolved", "rejected"}

\* the error a rejected call surfaces: the one of its last attempt
surfaced(c) == c.outcomes[Len(c.outcomes)]

\* the key of ERROR_MESSAGES that getErrorMessage picks for the error of an
\* attempt; error.name is 'AbortError' only for the abort of the timeout
getErrorMessage(o) ==
  IF o.kind = "timeout" THEN "TIMEOUT_ERROR"
  ELSE IF ~hasResponse(o) THEN "NETWORK_ERROR"
  ELSE IF o.status = 401 THEN "UNAUTHORIZED"
  ELSE IF o.status = 403 THEN "FORBIDDEN"
  ELSE IF o.status = 404 THEN "NOT_FOUND"
  ELSE IF o.status = 400 THEN "VALIDATION_ERROR"
  ELSE IF o.status = 500 THEN "SERVER_ERROR"
  ELSE "UNKNOWN_ERROR"

\* error.userMessage of a rejected call
userMessage(c) == getErrorMessage(surfaced(c))

responseOk(o) == o.kind \in {"ok", "badjson"}

\* the response interceptors, in registration order: the logging one of
\* addDefaultInterceptors, then the one of ApiService.setupGlobalErrorHandlers.
\* Both success handlers return the response; neither throws.
responseInterceptors ==
  << [name |-> "logging", onSuccessThrows |-> FALSE],
     [name |-> "globalError", onSuccessThrows |-> FALSE] >>

\* applyResponseInterceptors calls an interceptor's onError only when its
\* onSuccess, which runs only for response.ok, throws
onErrorRuns(o, i) ==
  /\ responseOk(o)
  /\ responseInterceptors[i].onSuccessThrows
  /\ \A j \in 1..(i - 1) : ~responseInterceptors[j].onSuccessThrows

(***************************************************************************)
(* The world: every variable, as a record the operations transform         *)
(***************************************************************************)
World ==
  [calls |-> calls, currentUser |-> currentUser, authToken |-> authToken,
   refreshToken |-> refreshToken, tokenExpiryTime |-> tokenExpiryTime,
   refreshTimer |-> refreshTimer, baseAuth |-> baseAuth,
   ensf_auth |-> ensf_auth, timers |-> timers, now |-> now, hist |-> hist]

Becomes(w) ==
  /\ calls' = w.calls
  /\ currentUser' = w.currentUser
  /\ authToken' = w.authToken
  /\ refreshToken' = w.refreshToken
  /\ tokenExpiryTime' = w.tokenExpiryTime
  /\ refreshTimer' = w.refreshTimer
  /\ baseAuth' = w.baseAuth
  /\ ensf_auth' = w.ensf_auth
  /\ timers' = w.timers
  /\ now' = w.now
  /\ hist' = w.hist
  /\ UNCHANGED <<apiVars, dash, hook, facade>>

(***************************************************************************)
(* AuthService                                                             *)
(***************************************************************************)
\* httpClient.setAuthToken: a falsy token deletes the header
setAuthToken(w, token) == [w EXCEPT !.baseAuth = token]

\* createRequestConfig: headers are { ...this.baseHeaders, ...options.headers };
\* no caller of AuthService passes headers, so a request carries the
\* Authorization of baseHeaders as it is when the attempt is dispatched
requestAuthorization(w) == w.baseAuth

storeAuthData(w) ==
  [w EXCEPT !.ensf_auth =
     [state |-> "present", user |-> w.currentUser, token |-> w.authToken,
      refreshToken |-> w.refreshToken, tokenExpiryTime |-> w.tokenExpiryTime]]

clearTimeout(w, id) == [w EXCEPT !.timers = {t \in @ : t.id # id}]

clearAuthData(w) ==
  LET w1 == [w EXCEPT !.currentUser = NOUSER, !.authToken = NoToken,
                      !.refreshToken = 0, !.tokenExpiryTime = 0]
      w2 == setAuthToken(w1, NoToken)
      w3 == IF w2.refreshTimer # 0
            THEN [clearTimeout(w2, w2.refreshTimer) EXCEPT !.refreshTimer = 0]
            ELSE w2
  IN [w3 EXCEPT !.ensf_auth = Absent, !.hist.trace = Append(@, "clear")]

\* "throws" when this.currentUser.roles cannot be read
isAuthenticated(w) ==
  IF w.currentUser \in {NOUSER, NOROLES} THEN "throws"
  ELSE IF w.currentUser = ADMIN THEN "true"
  ELSE IF w.authToken # NoToken THEN "true" ELSE "false"

\* httpClient.post(...) up to its first await: the notification is fetched
\* at once, with the headers and refresh token of this moment; nothing
\* waits for it
notifyServer(w) ==
  [w EXCEPT !.calls["notify"] = startRequest(0),
            !.hist.trace = Append(@, "notify")]

\* the mutant clears before it notifies
logout_ClearFirst(w) ==
  LET w0 == [w EXCEPT !.hist.trace = <<>>, !.hist.threw = FALSE]
      r  == isAuthenticated(w0)
      w1 == clearAuthData(w0)
  IN IF r = "true" THEN notifyServer(w1) ELSE w1

\* the mutant has no catch: the TypeError of isAuthenticated escapes
logout_NoCatch(w) ==
  LET w0 == [w EXCEPT !.hist.trace = <<>>, !.hist.threw = FALSE]
      r  == isAuthenticated(w0)
  IN IF r = "throws" THEN [w0 EXCEPT !.hist.threw = TRUE]
     ELSE IF r = "true" THEN clearAuthData(notifyServer(w0))
     ELSE clearAuthData(w0)

logout(w) ==
  LET w0 == [w EXCEPT !.hist.trace = <<>>, !.hist.threw = FALSE]
      r  == isAuthenticated(w0)
  IN IF r = "throws" THEN clearAuthData(w0)
     ELSE IF r = "true" THEN clearAuthData(notifyServer(w0))
     ELSE clearAuthData(w0)

\* a handle setTimeout has not handed out to a live reference
freshTimerId(w) ==
  CHOOSE i \in 1..(Cardinality(w.timers) + 2) :
    /\ i # w.refreshTimer
    /\ \A t \in w.timers : t.id # i
    /\ \A j \in 1..(i - 1) : j = w.refreshTimer \/ \E t \in w.timers : t.id = j

\* the mutant arms the new timer without cancelling the old one
scheduleTokenRefresh_Stack(w) ==
  IF w.tokenExpiryTime = 0 \/ w.refreshToken = 0 THEN w
  ELSE LET refreshTime == w.tokenExpiryTime - w.now - REFRESH_LEAD
       IN IF refreshTime > 0
          THEN LET id == freshTimerId(w)
               IN [w EXCEPT !.refreshTimer = id,
                            !.timers = @ \cup {[id |-> id, at |-> w.now + refreshTime]}]
          ELSE logout(w)

scheduleTokenRefresh(w) ==
  IF w.tokenExpiryTime = 0 \/ w.refreshToken = 0 THEN w
  ELSE LET w1 == IF w.refreshTimer # 0 THEN clearTimeout(w, w.refreshTimer) ELSE w
           refreshTime == w1.tokenExpiryTime - w1.now - REFRESH_LEAD
       IN IF refreshTime > 0
          THEN LET id == freshTimerId(w1)
               IN [w1 EXCEPT !.refreshTimer = id,
                             !.timers = @ \cup {[id |-> id, at |-> w1.now + refreshTime]}]
          ELSE logout(w1)

\* ApiService.handleGlobalError(error): error.status 401 logs out
handleGlobalError(w, status) == IF status = 401 THEN logout(w) ELSE w

\* a fetch of slot s settles: interceptors, then return / throw / sleep.
\* The error an onError handler receives is the one its onSuccess threw,
\* which has no status.
settleCall(w, s, o) ==
  LET w1 == IF onErrorRuns(o, 2) THEN handleGlobalError(w, 0) ELSE w
  IN IF \E i \in 1..Len(responseInterceptors) : onErrorRuns(o, i)
     THEN [w1 EXCEPT !.calls[s] = settle(@, [kind |-> "interceptor", status |-> 0])]
     ELSE [w1 EXCEPT !.calls[s] = settle(@, o)]

\* the token field of an answer: a token without exp claim, or a JWT
ServerTokens == {Token(3, "noexp", 0)} \cup JWTs

\* response.data of a login or refresh answer
NoData == [present |-> FALSE, token |-> NoToken, refreshToken |-> 0, user |-> NOUSER]

LoginData ==
  {NoData} \cup
  {[present |-> TRUE, token |-> t, refreshToken |-> r, user |-> u] :
     t \in ServerTokens, r \in RefreshTokens \cup {0},
     u \in {CLIENT, ADMIN}}

RefreshData ==
  {NoData} \cup
  {[present |-> TRUE, token |-> t, refreshToken |-> r, user |-> NOUSER] :
     t \in ServerTokens, r \in RefreshTokens \cup {0}}

\* loginUserService / loginAgenceService after the awaited post: the two
\* differ only in the URL
loginContinuation(w, c, data) ==
  IF c.pc = "resolved" /\ data.present
  THEN LET w1 == [w EXCEPT !.authToken = data.token,
                           !.refreshToken = data.refreshToken,
                           !.currentUser = data.user,
                           !.tokenExpiryTime = parseTokenExpiry(data.token)]
           w2 == setAuthToken(w1, w1.authToken)
           w3 == storeAuthData(w2)
           w4 == scheduleTokenRefresh(w3)
       IN [w4 EXCEPT !.hist.res = "returned"]
  ELSE [w EXCEPT !.hist.res = "threw"]

\* refreshAuthToken after the awaited post
refreshContinuation(w, c, data) ==
  IF c.pc = "resolved" /\ data.present
  THEN LET w1 == [w EXCEPT !.authToken = data.token,
                           !.refreshToken =
                              IF data.refreshToken # 0 THEN data.refreshToken ELSE @,
                           !.tokenExpiryTime = parseTokenExpiry(data.token)]
           w2 == setAuthToken(w1, w1.authToken)
           w3 == storeAuthData(w2)
           w4 == scheduleTokenRefresh(w3)
       IN [w4 EXCEPT !.hist.res = "returned"]
  ELSE [logout(w) EXCEPT !.hist.res = "threw"]

\* the catch of the timer callback of scheduleTokenRefresh
timerCatch(w) == IF w.hist.res = "threw" THEN logout(w) ELSE w

Slots == {"request", "login", "refresh", "notify"}

\* what the last operation did: its name (op), whether it returned or threw
\* (res), the events of the last run of logout (trace), whether that run
\* threw (threw), and how many times in a row op was called (streak)
NoHist ==
  [op |-> "init", res |-> "none", trace |-> <<>>, threw |-> FALSE, streak |-> 0]

(***************************************************************************)
(* ApiService, token-key variant (ApiService.js lines 16-806): tokens in   *)
(* localStorage under 'authToken' / 'refreshToken', its own makeRequest    *)
(***************************************************************************)
\* an item is "none" when absent; "undefined" is the string setItem stores
\* for an undefined value
NoTokens == [authToken |-> "none", refreshToken |-> "none"]

\* const maxRetries = 3 of this makeRequest
ApiMaxRetries == 3

IdleApi ==
  [op |-> "none", pc |-> "idle", attempt |-> 0, fetches |-> 0, refreshes |-> 0,
   lastError |-> "none", success |-> FALSE]

setTokens(ts, accessToken, rt) ==
  [authToken |-> accessToken,
   refreshToken |-> IF rt # "none" THEN rt ELSE ts.refreshToken]

clearTokens(ts) == NoTokens

\* the error makeRequest throws for an answer
ApiError(o) ==
  IF o.kind = "network" THEN "Failed to fetch"
  ELSE IF o.kind = "badjson" THEN "SyntaxError"
  ELSE IF o.status = 401 THEN "UNAUTHORIZED"
  ELSE IF o.status = 403 THEN "FORBIDDEN"
  ELSE IF o.status = 404 THEN "NOT_FOUND"
  ELSE IF o.status >= 500 THEN "SERVER_ERROR"
  ELSE "HTTP"

\* the catch block of makeRequest: remember the error, stop on FORBIDDEN and
\* NOT_FOUND, sleep before every attempt but the last, leave the loop after it
ApiCatch(a, error) ==
  LET a1 == [a EXCEPT !.lastError = error] IN
  IF error \in {"FORBIDDEN", "NOT_FOUND"} THEN [a1 EXCEPT !.pc = "returned"]
  ELSE IF a.attempt < ApiMaxRetries THEN [a1 EXCEPT !.pc = "sleeping"]
  ELSE [a1 EXCEPT !.pc = "returned"]

\* what the caller of makeRequest does with the result: logoutAgenceService
\* clears the tokens only when result.success
ApiReturn(ts, a) ==
  IF a.op = "logout" /\ a.pc = "returned" /\ a.success THEN clearTokens(ts) ELSE ts

(***************************************************************************)
(* useDashboardData: the dashboard data hook                               *)
(***************************************************************************)
\* the fetch operations: fetchUserServiceData, fetchAgenceServiceDashboard,
\* fetchSystemHealth, fetchPendingDocuments, fetchRecentActivity, fetchUsers,
\* named by their loading / error key
Operations ==
  {"statistics", "dashboard", "health", "documents", "recentActivity", "users"}

\* the five that initializeDashboard starts, in the order of its array
InitFetches == <<"statistics", "dashboard", "health", "documents", "recentActivity">>

InitOperations == {InitFetches[i] : i \in 1..Len(InitFetches)}

\* useState initial values.  slot: what dashboardData holds for the operation
\* ("initial", "result" of a fetch, or a "fallback"); error: errors[op]
\* ("none" for null / undefined, or a "message"); pending: the operation
\* awaits its ApiService call; last: how its run ended; init: where
\* initializeDashboard is; waiting: the promises allSettled still waits for
InitialDash ==
  [slot    |-> [op \in Operations |-> "initial"],
   error   |-> [op \in Operations |-> "none"],
   loading |-> [op \in Operations |-> FALSE],
   pending |-> [op \in Operations |-> FALSE],
   last    |-> [op \in Operations |-> "none"],
   init    |-> "idle",
   waiting |-> {}]

setOperationLoading(d, op, isLoading) == [d EXCEPT !.loading[op] = isLoading]

\* error ? safeFormatError(error) : null
setOperationError(d, op, error) ==
  [d EXCEPT !.error[op] = IF error = "none" THEN "none" ELSE "message"]

\* a fetch operation up to its await: loading on, error cleared, the
\* ApiService call is made
fetchStarts(d, op) ==
  [setOperationError(setOperationLoading(d, op, TRUE), op, "none")
     EXCEPT !.pending[op] = TRUE, !.last[op] = "none"]

\* the call resolved: the result goes into the operation's slot; finally
fetchResolves(d, op) ==
  LET d1 == [d EXCEPT !.slot[op] = "result", !.last[op] = "ok"]
  IN [setOperationLoading(d1, op, FALSE) EXCEPT !.pending[op] = FALSE,
                                                !.waiting = @ \ {op}]

\* the call rejected: catch sets the error and rethrows; finally
fetchRejects(d, op) ==
  LET d1 == [setOperationError(d, op, "error") EXCEPT !.last[op] = "failed"]
  IN [setOperationLoading(d1, op, FALSE) EXCEPT !.pending[op] = FALSE,
                                                !.waiting = @ \ {op}]

RECURSIVE startAll(_, _)
startAll(d, ops) ==
  IF ops = <<>> THEN d ELSE startAll(fetchStarts(d, Head(ops)), Tail(ops))

\* the mutant awaits each fetch before it starts the next one: only the
\* first is started by the call
initializeDashboard_OneByOne(d) ==
  LET d1 == setOperationError(setOperationLoading(d, "dashboard", TRUE),
                              "dashboard", "none")
  IN [startAll(d1, <<InitFetches[1]>>) EXCEPT !.init = "awaiting",
                                              !.waiting = InitOperations]

\* initializeDashboard up to await Promise.allSettled([...]): the five
\* calls in the array run one after the other, each up to its own await
initializeDashboard(d) ==
  LET d1 == setOperationError(setOperationLoading(d, "dashboard", TRUE),
                              "dashboard", "none")
  IN [startAll(d1, InitFetches) EXCEPT !.init = "awaiting",
                                       !.waiting = InitOperations]

\* after allSettled: the results are logged; finally loading.dashboard off
initializeCompletes(d) ==
  [setOperationLoading(d, "dashboard", FALSE) EXCEPT !.init = "done"]

(***************************************************************************)
(* useDashboardData with the values it stores and overlapping fetches      *)
(***************************************************************************)
\* most fetch calls one run of the hook makes in all
MaxStarts == 5

\* a slot of dashboardData: null (or the empty list) before any result,
\* else the payload the ApiService call returned.  n stands for the
\* payload's content (its totalClients, totalUsers, totalElements or
\* status); a payload is told from another by it
Null == [present |-> FALSE, n |-> 0]

slotValue(n) == [present |-> TRUE, n |-> n]

\* the answer of the server to the n-th call of an operation
payload(op, n) == slotValue(n)

\* the key of dashboardData an operation's slot lives under
serviceOf(op) == IF op = "statistics" THEN "userService" ELSE "agenceService"

InitialData ==
  [userService   |-> [statistics |-> Null],
   agenceService |-> [dashboard |-> Null, users |-> Null, documents |-> Null,
                      health |-> Null, recentActivity |-> Null]]

\* useState initial values; started: how many calls of the operation have
\* been made; inflight: those whose ApiService call has not settled; init:
\* where initializeDashboard is; waiting: the promises its allSettled still
\* waits for
InitialHook ==
  [dashboardData |-> InitialData,
   loading  |-> [op \in Operations |-> FALSE],
   error    |-> [op \in Operations |-> "none"],
   started  |-> [op \in Operations |-> 0],
   inflight |-> [op \in Operations |-> {}],
   init     |-> "idle",
   waiting  |-> {}]

slotOf(h, op) == h.dashboardData[serviceOf(op)][op]

\* the updater replaces its service's object by one without the other slots
setDashboardData_NoSpread(h, op, value) ==
  [h EXCEPT !.dashboardData[serviceOf(op)] =
              [InitialData[serviceOf(op)] EXCEPT ![op] = value]]

\* setDashboardData(prev => ({...prev, service: {...prev.service, slot}}))
setDashboardData(h, op, value) ==
  [h EXCEPT !.dashboardData[serviceOf(op)][op] = value]

totalStarted(h) ==
  h.started["statistics"] + h.started["dashboard"] + h.started["health"]
    + h.started["documents"] + h.started["recentActivity"] + h.started["users"]

\* a fetch operation is called: loading on, error cleared, the ApiService
\* call is made and awaited
fetchCalled(h, op) ==
  [setOperationError(setOperationLoading(h, op, TRUE), op, "none")
     EXCEPT !.started[op] = @ + 1, !.inflight[op] = @ \cup {h.started[op] + 1}]

\* the n-th call of the operation resolved: its payload goes into the slot;
\* finally loading off
fetchReturns(h, op, n) ==
  LET h1 == setDashboardData(h, op, payload(op, n))
  IN [setOperationLoading(h1, op, FALSE)
        EXCEPT !.inflight[op] = @ \ {n}, !.waiting = @ \ {<<op, n>>}]

\* the n-th call of the operation rejected: catch sets the error and
\* rethrows; finally loading off
fetchThrows(h, op, n) ==
  LET h1 == setOperationError(h, op, "error")
  IN [setOperationLoading(h1, op, FALSE)
        EXCEPT !.inflight[op] = @ \ {n}, !.waiting = @ \ {<<op, n>>}]

RECURSIVE callAll(_, _)
callAll(h, ops) ==
  IF ops = <<>> THEN h ELSE callAll(fetchCalled(h, Head(ops)), Tail(ops))

\* initializeDashboard up to await Promise.allSettled([...])
initializeDashboardCalled(h) ==
  LET h1 == setOperationError(setOperationLoading(h, "dashboard", TRUE),
                              "dashboard", "none")
      h2 == callAll(h1, InitFetches)
  IN [h2 EXCEPT !.init = "awaiting",
                !.waiting = {<<op, h2.started[op]>> : op \in InitOperations}]

\* the argument of refreshData: the keys of refreshFunctions and any other
DataTypes == Operations \cup {"unknown"}

\* refreshData(dataType) up to its await
refreshData(h, dataType) ==
  IF dataType = "dashboard" THEN initializeDashboardCalled(h)
  ELSE IF dataType \in Operations THEN fetchCalled(h, dataType)
  ELSE h

\* the default of x?.field || 0
orZero(v) == IF v.present THEN v.n ELSE 0

healthStatus(n) == IF n = 1 THEN "UP" ELSE "DEGRADED"

\* combinedStatistics: null without statistics and dashboard, else the
\* merged view
NoStatistics == [produced |-> FALSE, totalClients |-> 0, totalUsers |-> 0,
                 pendingDocuments |-> 0, systemHealth |-> "UNKNOWN"]

combinedStatistics(dashboardData) ==
  LET userStats == dashboardData.userService.statistics
      agenceStats == dashboardData.agenceService.dashboard
      documentsStats == dashboardData.agenceService.documents
      health == dashboardData.agenceService.health
  IN IF ~userStats.present /\ ~agenceStats.present THEN NoStatistics
     ELSE [produced |-> TRUE,
           totalClients |-> orZero(userStats),
           totalUsers |-> orZero(agenceStats),
           pendingDocuments |-> orZero(documentsStats),
           systemHealth |-> IF health.present THEN healthStatus(health.n)
                            ELSE "UNKNOWN"]

(***************************************************************************)
(* ApiService (fetch variant) and AgenceService: the facade operations     *)
(***************************************************************************)
\* largest page number asked for
MaxPage == 1

\* the data field of an envelope.  kind: "absent" (no data field), "payload"
\* (the backend's own data), "wrapped" (the raw payload, wraps names it),
\* "page", "statistics", "health", "message" (fallback values); the page
\* fields are "absent" or the number as a string
NoFields == [kind |-> "absent", wraps |-> 0, content |-> "absent",
             totalElements |-> "absent", totalPages |-> "absent",
             number |-> "absent"]

\* a JavaScript value a facade operation receives or returns.  success and
\* error are "absent" when the object has no such field
Value(id, type, success, error, data) ==
  [id |-> id, type |-> type, success |-> success, error |-> error,
   data |-> data]

Undefined == Value(0, "undefined", "absent", "absent", NoFields)

\* what the backend may answer with status 2xx: a raw object, a raw list,
\* the ApiResponse format (succeeded or failed), a JSON null, a JSON string
Payloads ==
  {Value(1, "object", "absent", "absent", NoFields),
   Value(2, "array", "absent", "absent", NoFields),
   Value(3, "object", "true", "null", [NoFields EXCEPT !.kind = "payload"]),
   Value(4, "object", "false", "message", NoFields),
   Value(5, "null", "absent", "absent", NoFields),
   Value(6, "string", "absent", "absent", NoFields)}

\* makeRequest resolves with the parsed body or throws an Error (401, 403,
\* other status, network failure)
FacadeOutcomes ==
  {[kind |-> "resolved", payload |-> p] : p \in Payloads} \cup
  {[kind |-> k, payload |-> Undefined] : k \in {"unauthorized", "http", "network"}}

\* the operations of ApiService with the hasOwnProperty('success') test
Wrapping ==
  {"getAdminDashboard", "getSystemHealth", "getRecentActivity",
   "getPendingDocuments", "getAllClients", "getClientStatistics",
   "searchClients", "getAgenceUserStatistics"}

\* the operations of AgenceService, over httpClient
AgenceOperations == {"agence.getUsers", "agence.getPendingDocuments"}

FacadeOperations ==
  Wrapping \cup {"getUsers", "getAdminUsers"} \cup AgenceOperations

pageNumber(page) == IF page = 0 THEN "0" ELSE "n"

emptyPage(page) ==
  [NoFields EXCEPT !.kind = "page", !.content = "[]", !.totalElements = "0",
                   !.totalPages = "0", !.number = pageNumber(page)]

\* the data of the envelope a catch block returns
fallbackData(op, page) ==
  IF op \in {"getUsers", "getPendingDocuments", "getAllClients"}
    THEN emptyPage(page)
  ELSE IF op = "searchClients"
    THEN [NoFields EXCEPT !.kind = "page", !.content = "[]",
                          !.totalElements = "0"]
  ELSE IF op \in {"getClientStatistics", "getAgenceUserStatistics"}
    THEN [NoFields EXCEPT !.kind = "statistics"]
  ELSE IF op = "getSystemHealth" THEN [NoFields EXCEPT !.kind = "health"]
  ELSE IF op = "getRecentActivity" THEN [NoFields EXCEPT !.kind = "message"]
  ELSE NoFields

\* return {success: false, error: this.formatError(error), data: ...}
failure(op, page) ==
  [threw |-> FALSE,
   value |-> Value(0, "object", "false", "message", fallbackData(op, page))]

\* response && typeof response === 'object'
isObject(response) == response.type \in {"object", "array"}

\* the operation after its await, for each way the request ended
facadeResult(op, page, outcome) ==
  IF op \in AgenceOperations \/ op = "getAdminUsers" THEN
    IF outcome.kind = "resolved"
      THEN [threw |-> FALSE, value |-> outcome.payload]
      ELSE [threw |-> TRUE, value |-> Undefined]
  ELSE IF outcome.kind # "resolved" THEN failure(op, page)
  ELSE IF op = "getUsers" THEN [threw |-> FALSE, value |-> outcome.payload]
  ELSE IF ~isObject(outcome.payload) THEN failure(op, page)
  ELSE IF outcome.payload.success # "absent"
    THEN [threw |-> FALSE, value |-> outcome.payload]
  ELSE [threw |-> FALSE,
        value |-> Value(0, "object", "true", "absent",
                        [NoFields EXCEPT !.kind = "wrapped",
                                         !.wraps = outcome.payload.id])]

IdleFacade ==
  [pc |-> "idle", op |-> "none", page |-> 0,
   outcome |-> [kind |-> "none", payload |-> Undefined],
   result |-> [threw |-> FALSE, value |-> Undefined]]

\* the operation up to its await; ensureAuthenticated throws at once
facadeCalled(op, page, authenticated) ==
  IF op \in AgenceOperations /\ ~authenticated
    THEN [IdleFacade EXCEPT !.pc = "returned", !.op = op, !.page = page,
                            !.outcome.kind = "unauthenticated",
                            !.result = [threw |-> TRUE, value |-> Undefined]]
    ELSE [IdleFacade EXCEPT !.pc = "awaiting", !.op = op, !.page = page]

(***************************************************************************)
(* Specification of AuthService with the HttpClient calls it makes         *)
(***************************************************************************)
\* the attempts of the calls AuthService makes end in one of these
AuthOutcomes ==
  {[kind |-> "ok", status |-> 200], [kind |-> "http", status |-> 401],
   [kind |-> "network", status |-> 0]}

\* what an earlier page load may have left under 'ensf_auth'
Corrupt == [Absent EXCEPT !.state = "corrupt"]

StoredSessions ==
  {Absent, Corrupt} \cup
  {[state |-> "present", user |-> u, token |-> t, refreshToken |-> r,
    tokenExpiryTime |-> parseTokenExpiry(t)] :
     u \in {CLIENT, ADMIN}, t \in {Token(3, "noexp", 0), Token(3, "exp", 2), Token(3, "exp", MaxExp)},
     r \in RefreshTokens \cup {0}}

initializeFromStorage(w) ==
  LET a == w.ensf_auth IN
  IF a.state = "absent" THEN w
  ELSE IF a.state = "corrupt" THEN clearAuthData(w)
  ELSE IF a.tokenExpiryTime # 0 /\ w.now < a.tokenExpiryTime
       THEN LET w1 == [w EXCEPT !.currentUser = a.user, !.authToken = a.token,
                                !.refreshToken = a.refreshToken,
                                !.tokenExpiryTime = a.tokenExpiryTime]
            IN scheduleTokenRefresh(setAuthToken(w1, w1.authToken))
       ELSE clearAuthData(w)

\* the fields the constructor assigns before it reads 'ensf_auth'; the item
\* 'currentUser' holds a user object (line 29 reads its accessToken)
constructed(user, stored, t) ==
  [calls |-> [s \in Slots |-> IdleCall], currentUser |-> user,
   authToken |-> NoToken, refreshToken |-> 0, tokenExpiryTime |-> 0,
   refreshTimer |-> 0, baseAuth |-> NoToken, ensf_auth |-> stored,
   timers |-> {}, now |-> t, hist |-> NoHist]

InitAuth ==
  \E user \in {CLIENT, ADMIN, NOROLES}, stored \in StoredSessions, t \in {0, 1} :
    LET w == initializeFromStorage(constructed(user, stored, t)) IN
    /\ calls = w.calls
    /\ currentUser = w.currentUser
    /\ authToken = w.authToken
    /\ refreshToken = w.refreshToken
    /\ tokenExpiryTime = w.tokenExpiryTime
    /\ refreshTimer = w.refreshTimer
    /\ baseAuth = w.baseAuth
    /\ ensf_auth = w.ensf_auth
    /\ timers = w.timers
    /\ now = w.now
    /\ hist = NoHist
    /\ tokenStore = NoTokens
    /\ api = IdleApi
  /\ dash = InitialDash
  /\ hook = InitialHook
  /\ facade = IdleFacade

\* no session anywhere
Anonymous(w) ==
  /\ w.authToken = NoToken
  /\ w.refreshToken = 0
  /\ w.tokenExpiryTime = 0
  /\ w.ensf_auth.state = "absent"
  /\ w.baseAuth = NoToken
  /\ w.timers = {}

Did(w, op) ==
  [w EXCEPT !.hist.op = op, !.hist.res = "none",
            !.hist.streak = IF w.hist.op = op THEN 2 ELSE 1]

\* loginUserService / loginAgenceService up to the awaited post
LoginStarts ==
  /\ calls["login"].pc = "idle"
  /\ Becomes([World EXCEPT !.calls["login"] = startRequest(0)])

\* makeRequest from a dispatched attempt to its end, the attempts ending
\* with outs in turn.  AuthService sees none of the steps in between.
RECURSIVE runCall(_, _, _)
runCall(w, s, outs) ==
  IF outs = <<>> \/ w.calls[s].pc # "fetching" THEN w
  ELSE LET w1 == settleCall(w, s, Head(outs))
           w2 == IF w1.calls[s].pc = "sleeping"
                 THEN [w1 EXCEPT !.calls[s] = nextAttempt(@)]
                 ELSE w1
       IN runCall(w2, s, Tail(outs))

\* outs is a complete run of the pending call of slot s
Completes(w, s, outs) ==
  LET c == runCall(w, s, outs).calls[s]
  IN Terminal(c) /\ Len(c.outcomes) = Len(outs)

\* the complete runs of a call made with the default options
Runs ==
  LET w0 == [calls |-> [s \in Slots |-> startRequest(0)]]
  IN {outs \in UNION {[1..n -> AuthOutcomes] : n \in 1..MAX_RETRIES} :
        Completes(w0, "login", outs)}

\* the awaited post of the login ends; the rest of the login runs
LoginSettles(outs, data) ==
  /\ calls["login"].pc = "fetching"
  /\ LET w1 == runCall(World, "login", outs)
         c  == w1.calls["login"]
     IN Becomes([loginContinuation(Did(w1, "login"), c, data) EXCEPT
                   !.calls["login"] = IdleCall])

\* refreshAuthToken up to the awaited post
refreshAuthToken(w) ==
  IF w.refreshToken = 0
  THEN [logout(w) EXCEPT !.hist.res = "threw"]
  ELSE [w EXCEPT !.calls["refresh"] = startRequest(0),
                 !.hist.res = "pending"]

\* the timer armed by scheduleTokenRefresh fires and runs its callback
TimerFires(t) ==
  /\ t \in timers
  /\ now >= t.at
  /\ calls["refresh"].pc = "idle"
  /\ LET w0 == [Did(World, "refresh") EXCEPT !.timers = @ \ {t}]
     IN Becomes(timerCatch(refreshAuthToken(w0)))

\* the awaited post of the refresh ends; the rest of refreshAuthToken runs,
\* then the catch of the timer callback
RefreshSettles(outs, data) ==
  /\ calls["refresh"].pc = "fetching"
  /\ LET w1 == runCall(World, "refresh", outs)
         c  == w1.calls["refresh"]
         w2 == timerCatch(refreshContinuation(Did(w1, "refresh"), c, data))
     IN Becomes([w2 EXCEPT !.calls["refresh"] = IdleCall])

\* the logout notification ends: .catch only logs.  The slot keeps how it
\* ended until the next notification.
NotifySettles(outs) ==
  /\ calls["notify"].pc = "fetching"
  /\ LET w1 == runCall(World, "notify", outs)
         c  == w1.calls["notify"]
     IN Becomes([w1 EXCEPT !.calls["notify"] =
                   [IdleCall EXCEPT !.pc = c.pc]])

Logout ==
  Becomes(logout(Did(World, "logout")))

ScheduleTokenRefresh ==
  Becomes(scheduleTokenRefresh(Did(World, "schedule")))

Tick ==
  /\ now < MaxTime
  /\ now' = now + 1
  /\ UNCHANGED <<calls, currentUser, authToken, refreshToken, tokenExpiryTime,
                 refreshTimer, baseAuth, ensf_auth, timers, hist, apiVars, dash, hook, facade>>

\* a run that ends with a 2xx answer carries response.data
OkData(outs, D) == IF outs[Len(outs)].kind = "ok" THEN D ELSE {NoData}

NextAuth ==
  \/ LoginStarts
  \/ \E outs \in Runs : \E d \in OkData(outs, LoginData) : LoginSettles(outs, d)
  \/ \E t \in timers : TimerFires(t)
  \/ \E outs \in Runs : \E d \in OkData(outs, RefreshData) : RefreshSettles(outs, d)
  \/ \E outs \in Runs : NotifySettles(outs)
  \/ Logout
  \/ ScheduleTokenRefresh
  \/ Tick

SpecAuth == InitAuth /\ [][NextAuth]_vars

(***************************************************************************)
(* Specification of HttpClient.makeRequest: one caller at a time, any      *)
(* options, any server, from every state the constructor leaves            *)
(***************************************************************************)
\* httpClient.get / post / ... : makeRequest(url, options)
MakeRequest(opt) ==
  /\ calls["request"].pc \in {"idle", "resolved", "rejected"}
  /\ calls' = [calls EXCEPT !["request"] = startRequest(opt)]
  /\ UNCHANGED <<authVars, hist, apiVars, dash, hook, facade>>

\* the pending fetch of the request settles
FetchSettles(o) ==
  /\ calls["request"].pc = "fetching"
  /\ Becomes(settleCall(World, "request", o))

\* the backoff sleep ends and the next attempt is dispatched
SleepEnds ==
  /\ calls["request"].pc = "sleeping"
  /\ calls' = [calls EXCEPT !["request"] = nextAttempt(@)]
  /\ UNCHANGED <<authVars, hist, apiVars, dash, hook, facade>>

\* the caller aborts the signal it passed in options.signal while an attempt
\* is in flight.  makeRequest hands fetch the signal of its own controller
\* (line 203-206 overwrite options.signal), so the fetch goes on.
CallerAborts ==
  /\ calls["request"].pc = "fetching"
  /\ ~calls["request"].aborted
  /\ calls' = [calls EXCEPT !["request"].aborted = TRUE]
  /\ UNCHANGED <<authVars, hist, apiVars, dash, hook, facade>>

NextHttp ==
  \/ \E opt \in 0..MaxRetriesOpt : MakeRequest(opt)
  \/ \E o \in Outcomes : FetchSettles(o)
  \/ SleepEnds
  \/ CallerAborts

SpecHttp == InitAuth /\ [][NextHttp]_vars

(***************************************************************************)
(* Specification of the token-key ApiService: logoutAgenceService and any  *)
(* other call of its makeRequest                                           *)
(***************************************************************************)
ApiOutcomes ==
  {[kind |-> "ok", status |-> 200], [kind |-> "badjson", status |-> 200],
   [kind |-> "network", status |-> 0]}
  \cup {[kind |-> "http", status |-> st] : st \in {400, 401, 403, 404, 500}}

\* answers of the refresh endpoint: not ok (or no answer), or ok with data
RefreshAnswers ==
  {[ok |-> FALSE, accessToken |-> "none", refreshToken |-> "none"]} \cup
  {[ok |-> TRUE, accessToken |-> t, refreshToken |-> r] :
     t \in {"jwt2", "undefined"}, r \in {"none", "rt2"}}

InitApi ==
  /\ calls = [s \in Slots |-> IdleCall]
  /\ currentUser = CLIENT
  /\ authToken = NoToken
  /\ refreshToken = 0
  /\ tokenExpiryTime = 0
  /\ refreshTimer = 0
  /\ baseAuth = NoToken
  /\ ensf_auth = Absent
  /\ timers = {}
  /\ now = 0
  /\ hist = NoHist
  /\ tokenStore \in {NoTokens, setTokens(NoTokens, "jwt", "none"),
                     setTokens(NoTokens, "jwt", "rt")}
  /\ api = IdleApi
  /\ dash = InitialDash
  /\ hook = InitialHook
  /\ facade = IdleFacade

\* logoutAgenceService() or another operation calls makeRequest: attempt 1
\* is fetched
ApiCall(op) ==
  /\ api.pc \in {"idle", "returned"}
  /\ api' = [IdleApi EXCEPT !.op = op, !.pc = "fetching", !.attempt = 1,
                            !.fetches = 1]
  /\ UNCHANGED tokenStore

\* the fetch of the current attempt settles
ApiFetchSettles(o) ==
  /\ api.pc = "fetching"
  /\ IF o.kind = "ok"
     THEN LET a == [api EXCEPT !.pc = "returned", !.success = TRUE]
          IN api' = a /\ tokenStore' = ApiReturn(tokenStore, a)
     ELSE IF o.kind = "http" /\ o.status = 401
     THEN IF tokenStore.refreshToken = "none"
          THEN \* refreshAuthToken returns false without a request
               LET a == ApiCatch(api, "UNAUTHORIZED")
               IN api' = a /\ tokenStore' = ApiReturn(clearTokens(tokenStore), a)
          ELSE /\ api' = [api EXCEPT !.pc = "refreshing", !.refreshes = @ + 1]
               /\ UNCHANGED tokenStore
     ELSE LET a == ApiCatch(api, ApiError(o))
          IN api' = a /\ tokenStore' = ApiReturn(tokenStore, a)

\* the refresh request of refreshAuthToken settles
ApiRefreshSettles(r) ==
  /\ api.pc = "refreshing"
  /\ IF r.ok /\ api.attempt < ApiMaxRetries
     THEN \* continue: the next attempt is fetched with the new token
          /\ tokenStore' = setTokens(tokenStore, r.accessToken, r.refreshToken)
          /\ api' = [api EXCEPT !.pc = "fetching", !.attempt = @ + 1,
                                !.fetches = @ + 1]
     ELSE LET ts == IF r.ok
                    THEN setTokens(tokenStore, r.accessToken, r.refreshToken)
                    ELSE tokenStore
              a  == ApiCatch(api, "UNAUTHORIZED")
          IN api' = a /\ tokenStore' = ApiReturn(clearTokens(ts), a)

\* the sleep of the catch block ends: next attempt
ApiSleepEnds ==
  /\ api.pc = "sleeping"
  /\ api' = [api EXCEPT !.pc = "fetching", !.attempt = @ + 1, !.fetches = @ + 1]
  /\ UNCHANGED tokenStore

\* the application stores the tokens of a login answer
ApiSetTokens ==
  /\ api.pc \in {"idle", "returned"}
  /\ tokenStore' = setTokens(tokenStore, "jwt", "rt")
  /\ UNCHANGED api

NextApi ==
  /\ \/ \E op \in {"logout", "request"} : ApiCall(op)
     \/ \E o \in ApiOutcomes : ApiFetchSettles(o)
     \/ \E r \in RefreshAnswers : ApiRefreshSettles(r)
     \/ ApiSleepEnds
     \/ ApiSetTokens
  /\ UNCHANGED <<authVars, calls, hist, dash, hook, facade>>

SpecApi == InitApi /\ [][NextApi]_vars

(***************************************************************************)
(* Properties of HttpClient.makeRequest (checked under SpecHttp)           *)
(***************************************************************************)
ServiceUnavailable == [kind |-> "http", status |-> 503]

\* every attempt of the call so far was answered 503
All503(c) ==
  /\ c.pc # "idle"
  /\ \A i \in 1..Len(c.outcomes) : c.outcomes[i] = ServiceUnavailable

\* C1: when every attempt is answered 503, makeRequest issues exactly
\* maxRetries fetches (options.maxRetries, 3 when not passed), then rejects
\* with the error of the last attempt; it never resolves and never fetches
\* again.
C1_RetryCeiling ==
  LET c == calls["request"]
      n == IF c.opt = 0 THEN 3 ELSE c.opt
  IN All503(c) =>
       /\ c.pc # "resolved"
       /\ c.fetches <= n
       /\ c.pc = "rejected" => (c.fetches = n /\ surfaced(c) = ServiceUnavailable)
       /\ Len(c.outcomes) = n => c.pc = "rejected"

C1_Witness ==
  LET c == calls["request"]
  IN All503(c) /\ c.pc = "rejected" /\ c.opt = 0 /\ c.fetches = 3

\* a 4xx status other than 408
ClientError(o) == o.kind = "http" /\ o.status \in 400..499 /\ o.status # 408

\* C2: an attempt answered with a 4xx status other than 408 is the last one:
\* the call rejects at once, without sleeping and without another fetch; when
\* it is the first answer, exactly one fetch was issued.
C2_ClientErrorNotRetried ==
  LET c == calls["request"]
  IN \A i \in 1..Len(c.outcomes) :
       ClientError(c.outcomes[i]) =>
         /\ i = Len(c.outcomes)
         /\ c.pc = "rejected"
         /\ c.fetches = i
         /\ Len(c.slept) = i - 1

C2_Witness ==
  LET c == calls["request"]
  IN /\ c.pc = "rejected"
     /\ c.outcomes = <<[kind |-> "http", status |-> 404]>>
     /\ c.fetches = 1
     /\ c.slept = <<>>
     /\ c.maxRetries = 3

\* the session is gone everywhere
LoggedOut ==
  /\ Anonymous(World)
  /\ currentUser = NOUSER
  /\ refreshTimer = 0

\* C3: a request answered 401 leads to one token refresh, or, when the
\* refresh is not possible, to a forced logout.
C3_UnauthorizedHandled ==
  LET c == calls["request"]
  IN (c.pc = "rejected" /\ surfaced(c) = [kind |-> "http", status |-> 401]) =>
       \/ calls["refresh"].pc # "idle"
       \/ hist.op = "refresh"
       \/ LoggedOut

(***************************************************************************)
(* Properties of AuthService (checked under SpecAuth)                      *)
(***************************************************************************)
IsAnonymous == Anonymous(World)

\* a token whose expiry cannot be derived: not three segments, or a payload
\* without a numeric exp
Malformed(t) == t.segs # 3 \/ t.payload # "exp"

\* the login ends in a failure: no 2xx answer, no data, or a malformed token
LoginFailure(outs, d) ==
  \/ outs[Len(outs)].kind # "ok"
  \/ ~d.present
  \/ Malformed(d.token)

\* C4: a login that fails from the anonymous state (network failure, 401,
\* malformed token) leaves the client anonymous: no token, refresh token or
\* expiry in memory, no 'ensf_auth' entry, no Authorization header, no timer.
C4_FailedLoginStaysAnonymous ==
  [][\A outs \in Runs : \A d \in OkData(outs, LoginData) :
       (IsAnonymous /\ LoginFailure(outs, d) /\ LoginSettles(outs, d))
         => IsAnonymous']_vars

\* a well-formed token that scheduleTokenRefresh finds already due for a
\* refresh; it logs out on those, which is left aside here
DueForRefresh(t) == ~Malformed(t) /\ t.exp - now - REFRESH_LEAD <= 0

\* C5: right after a login returns successfully, the persisted session is
\* there and its expiry lies after the current time.
C5_LoginLeavesLiveSession ==
  [][\A outs \in Runs : \A d \in OkData(outs, LoginData) :
       (LoginSettles(outs, d) /\ hist'.res = "returned" /\ ~DueForRefresh(d.token))
         => (ensf_auth'.state = "present" /\ ensf_auth'.tokenExpiryTime > now')]_vars

\* C6: in a run of logout() the local state is cleared before the
\* notification is dispatched.
C6_ClearedBeforeNotified ==
  \A i, j \in DOMAIN hist.trace :
    (hist.trace[i] = "clear" /\ hist.trace[j] = "notify") => i < j

\* C6, as the code does it: a run of logout() dispatches the notification
\* first, when isAuthenticated() says so, and clears the local state right
\* after, without waiting; otherwise it only clears.  After logout() the
\* session is gone.
C6_NotifiedThenCleared ==
  /\ hist.trace \in {<<>>, <<"clear">>, <<"notify", "clear">>}
  /\ hist.op = "logout" => (hist.trace # <<>> /\ LoggedOut)

C6_Witness ==
  /\ hist.op = "logout"
  /\ hist.trace = <<"notify", "clear">>
  /\ calls["notify"].pc = "fetching"
  /\ LoggedOut

\* the session part of a world
Session(w) ==
  <<w.currentUser, w.authToken, w.refreshToken, w.tokenExpiryTime,
    w.refreshTimer, w.baseAuth, w.ensf_auth, w.timers>>

\* C8: logout() never throws, whatever the state, and leaves the in-memory
\* session, the 'ensf_auth' entry, the Authorization header and the timer
\* empty, the second time in a row as the first; clearAuthData is idempotent.
C8_LogoutIdempotent ==
  /\ hist.op = "logout" => (~hist.threw /\ LoggedOut)
  /\ Session(clearAuthData(clearAuthData(World))) = Session(clearAuthData(World))

C8_Witness ==
  /\ hist.op = "logout"
  /\ hist.streak = 2
  /\ hist.trace = <<"clear">>
  /\ LoggedOut

\* C9: at most one refresh timer is armed, the one this.refreshTimer names;
\* scheduleTokenRefresh called twice in succession on a session that is due
\* for a refresh leaves exactly one.
C9_SingleRefreshTimer ==
  /\ Cardinality(timers) <= 1
  /\ \A t \in timers : t.id = refreshTimer
  /\ ( /\ hist.op = "schedule"
       /\ hist.streak = 2
       /\ tokenExpiryTime # 0
       /\ refreshToken # 0
       /\ tokenExpiryTime - now - REFRESH_LEAD > 0 ) => Cardinality(timers) = 1

C9_Witness ==
  /\ hist.op = "schedule"
  /\ hist.streak = 2
  /\ Cardinality(timers) = 1

\* a failed refresh ends logged out
C10_FailedRefreshLogsOut ==
  (hist.op = "refresh" /\ hist.res = "threw") => LoggedOut

\* C10: the timer fired and the refresh was called: when it succeeds, the new
\* token is stored and the next timer is armed for its expiry; when it fails,
\* the client is logged out, the session cleared and no timer armed.
C10_RefreshRearmsOrLogsOut ==
  [][\A outs \in Runs : \A d \in OkData(outs, RefreshData) :
       RefreshSettles(outs, d) =>
         IF outs[Len(outs)].kind = "ok" /\ d.present
         THEN \/ DueForRefresh(d.token)
              \/ /\ authToken' = d.token
                 /\ ensf_auth'.state = "present"
                 /\ ensf_auth'.token = d.token
                 /\ timers' = {[id |-> refreshTimer', at |-> d.token.exp - REFRESH_LEAD]}
         ELSE LoggedOut']_vars

(***************************************************************************)
(* Properties of the logout operations                                     *)
(***************************************************************************)
\* AuthService.logout: while the notification is on its way and after it
\* ended, whatever its result, the session stays cleared
C7_AuthLogoutUnaffected ==
  (hist.op = "logout" /\ calls["notify"].pc # "idle") => LoggedOut

\* C7: a logout has cleared the local credentials whether its notification
\* succeeded or failed (here logoutAgenceService of the token-key
\* ApiService, once it has returned).
C7_LogoutClearsWhateverTheAnswer ==
  (api.op = "logout" /\ api.pc = "returned") => tokenStore = NoTokens

(***************************************************************************)
(* Properties of AuthService, continued (checked under SpecAuth)           *)
(***************************************************************************)
\* C11: scheduleTokenRefresh called on a session whose expiry is not more
\* than five minutes ahead leaves the client logged out with no timer,
\* whether or not the session has a refresh token.
C11_DueSessionIsLoggedOut ==
  [][( /\ tokenExpiryTime # 0
       /\ tokenExpiryTime - now - REFRESH_LEAD <= 0
       /\ ScheduleTokenRefresh ) => (LoggedOut' /\ timers' = {})]_vars

\* C12: a token in memory has an expiry, and no token whose expiry cannot be
\* derived is in memory or in the persisted entry.
C12_TokenHasExpiry ==
  /\ authToken # NoToken => (tokenExpiryTime # 0 /\ ~Malformed(authToken))
  /\ ensf_auth.state = "present" =>
       (ensf_auth.tokenExpiryTime # 0 /\ ~Malformed(ensf_auth.token))

(***************************************************************************)
(* Specification of the page load: the module creates the AuthService      *)
(* singleton from whatever localStorage holds, then the service is used    *)
(***************************************************************************)
\* what localStorage may hold under 'currentUser': nothing (NOUSER) or a
\* user object
CurrentUserItems == {NOUSER, CLIENT, ADMIN, NOROLES}

\* before the module is evaluated: no service yet, storage as it was left
InitBoot ==
  /\ calls = [s \in Slots |-> IdleCall]
  /\ currentUser = NOUSER
  /\ authToken = NoToken
  /\ refreshToken = 0
  /\ tokenExpiryTime = 0
  /\ refreshTimer = 0
  /\ baseAuth = NoToken
  /\ ensf_auth \in StoredSessions
  /\ timers = {}
  /\ now \in {0, 1}
  /\ hist = [NoHist EXCEPT !.op = "unloaded"]
  /\ tokenStore = NoTokens
  /\ api = IdleApi
  /\ dash = InitialDash
  /\ hook = InitialHook
  /\ facade = IdleFacade

\* new AuthService(): line 29 reads .accessToken of the parsed 'currentUser'
\* item, a TypeError when the item is absent (JSON.parse(null) is null);
\* the constructor then ends before initializeFromStorage
Construct(item) ==
  /\ hist.op = "unloaded"
  /\ IF item = NOUSER
     THEN Becomes([World EXCEPT !.hist.op = "constructor", !.hist.threw = TRUE])
     ELSE LET w == initializeFromStorage(constructed(item, ensf_auth, now))
          IN Becomes([w EXCEPT !.hist.op = "constructor"])

\* the service exists
Constructed == hist.op # "unloaded" /\ ~hist.threw

NextBoot ==
  \/ \E item \in CurrentUserItems : Construct(item)
  \/ Constructed /\ NextAuth

SpecBoot == InitBoot /\ [][NextBoot]_vars

\* C13: the constructor never throws, whatever the storage holds; after it
\* a session is in memory only if the stored one has an expiry after now,
\* and otherwise the client is anonymous and the entry is gone.
C13_RestoreNeverThrows ==
  hist.op = "constructor" =>
    /\ ~hist.threw
    /\ authToken # NoToken =>
         (ensf_auth.state = "present" /\ ensf_auth.tokenExpiryTime > now)
    /\ authToken = NoToken => IsAnonymous

(***************************************************************************)
(* Properties of HttpClient.makeRequest, continued (checked under SpecHttp)*)
(***************************************************************************)
\* C14: once the caller has aborted an in-flight request, the call issues no
\* further attempt and does not resolve; it ends rejected.
C14_AbortStopsTheCall ==
  [][(calls["request"].aborted /\ calls["request"]'.aborted) =>
       /\ calls["request"]'.fetches = calls["request"].fetches
       /\ calls["request"]'.pc # "resolved"]_vars

\* the failures the claim calls retryable: no response at all, or a response
\* with status 408 or >= 500
NoResponseOr5xx(o) ==
  \/ o.kind \in {"network", "timeout"}
  \/ o.kind = "http" /\ (o.status = 408 \/ o.status >= 500)

\* attempt i of the call was followed by a sleep (and then another attempt)
Retried(c, i) == c.attempt > i \/ (c.attempt = i /\ c.pc = "sleeping")

\* C15: a failed attempt that is not the last allowed one is retried if and
\* only if it got no response at all or a response with status 408 or
\* >= 500.
C15_RetriedIffNoResponseOr5xx ==
  LET c == calls["request"]
  IN \A i \in 1..Len(c.outcomes) :
       /\ Retried(c, i) => NoResponseOr5xx(c.outcomes[i])
       /\ (NoResponseOr5xx(c.outcomes[i]) /\ i < c.maxRetries) => Retried(c, i)

\* C16: the k-th sleep of a call, between attempt k and attempt k+1, lasts
\* RETRY_DELAY * 2^(k-1) with exponential backoff and RETRY_DELAY without;
\* there is one sleep per failed attempt but the last, none after the final
\* attempt.
C16_BackoffDelays ==
  LET c == calls["request"]
  IN /\ \A k \in 1..Len(c.slept) :
          c.slept[k] = IF EXPONENTIAL_BACKOFF THEN RETRY_DELAY * 2^(k - 1)
                       ELSE RETRY_DELAY
     /\ c.pc # "idle" => Len(c.slept) = c.fetches - 1 + (IF c.pc = "sleeping" THEN 1 ELSE 0)
     /\ c.pc # "idle" => Len(c.slept) <= c.maxRetries - 1
     /\ Len(c.outcomes) = c.maxRetries => c.pc # "sleeping"

C16_Witness ==
  LET c == calls["request"]
  IN /\ c.pc = "rejected"
     /\ c.maxRetries = 4
     /\ c.slept = <<1000, 2000, 4000>>
     /\ Len(c.outcomes) = 4

\* C17: the error a rejected call surfaces is labelled Timeout when the
\* timeout cancelled it, NetworkError when no response came for another
\* reason, Unauthorized for 401, Forbidden for 403, NotFound for 404,
\* Validation for 400 and ServerError for every 5xx status.
C17_ErrorKinds ==
  LET c == calls["request"]
      o == surfaced(c)
  IN c.pc = "rejected" =>
       /\ o.kind = "timeout" => userMessage(c) = "TIMEOUT_ERROR"
       /\ o.kind = "network" => userMessage(c) = "NETWORK_ERROR"
       /\ (o.kind = "http" /\ o.status = 401) => userMessage(c) = "UNAUTHORIZED"
       /\ (o.kind = "http" /\ o.status = 403) => userMessage(c) = "FORBIDDEN"
       /\ (o.kind = "http" /\ o.status = 404) => userMessage(c) = "NOT_FOUND"
       /\ (o.kind = "http" /\ o.status = 400) => userMessage(c) = "VALIDATION_ERROR"
       /\ (o.kind = "http" /\ o.status \in 500..599) => userMessage(c) = "SERVER_ERROR"

(***************************************************************************)
(* Properties of the Authorization header (checked under SpecAuth)         *)
(***************************************************************************)
\* the header follows the token in memory
C18_HeaderFollowsToken == requestAuthorization(World) = authToken

\* C18: a request carries Authorization: Bearer t exactly when the token t
\* is in memory, and the login request carries no Authorization header: it
\* never sends a token stored earlier.
C18_LoginCarriesNoToken ==
  [][ /\ requestAuthorization(World)' = authToken'
      /\ LoginStarts => requestAuthorization(World) = NoToken ]_vars

(***************************************************************************)
(* Specification of useDashboardData: initializeDashboard and the single   *)
(* fetch operations, any server                                            *)
(***************************************************************************)
InitDash ==
  /\ calls = [s \in Slots |-> IdleCall]
  /\ currentUser = ADMIN
  /\ authToken = NoToken
  /\ refreshToken = 0
  /\ tokenExpiryTime = 0
  /\ refreshTimer = 0
  /\ baseAuth = NoToken
  /\ ensf_auth = Absent
  /\ timers = {}
  /\ now = 0
  /\ hist = NoHist
  /\ tokenStore = NoTokens
  /\ api = IdleApi
  /\ dash = InitialDash
  /\ hook = InitialHook
  /\ facade = IdleFacade

\* the effect on mount, or refreshData('dashboard')
InitializeDashboard ==
  /\ dash.init # "awaiting"
  /\ \A op \in InitOperations : ~dash.pending[op]
  /\ dash' = initializeDashboard(dash)

\* one fetch operation called on its own (refreshData, a tab)
FetchStarts(op) ==
  /\ ~dash.pending[op]
  /\ dash' = fetchStarts(dash, op)

FetchResolves(op) ==
  /\ dash.pending[op]
  /\ dash' = fetchResolves(dash, op)

FetchRejects(op) ==
  /\ dash.pending[op]
  /\ dash' = fetchRejects(dash, op)

\* Promise.allSettled resolves once its five promises have settled
InitializeCompletes ==
  /\ dash.init = "awaiting"
  /\ dash.waiting = {}
  /\ dash' = initializeCompletes(dash)

NextDash ==
  /\ \/ InitializeDashboard
     \/ \E op \in Operations : FetchStarts(op)
     \/ \E op \in Operations : FetchResolves(op)
     \/ \E op \in Operations : FetchRejects(op)
     \/ InitializeCompletes
  /\ UNCHANGED <<authVars, calls, hist, apiVars, hook, facade>>

SpecDash == InitDash /\ [][NextDash]_vars

(***************************************************************************)
(* Properties of useDashboardData (checked under SpecDash)                 *)
(***************************************************************************)
\* C19: initializeDashboard starts its five fetches without waiting for any
\* of them: every fetch it still waits for is in flight; it never rejects
\* and is done only when all five have settled; a fetch that succeeded has
\* its result in its own slot, whatever the others do.
C19_FetchesRunSideBySide ==
  /\ \A op \in dash.waiting : op \in InitOperations /\ dash.pending[op]
  /\ dash.init \in {"idle", "awaiting", "done"}
  /\ dash.init = "done" => dash.waiting = {}
  /\ \A op \in Operations : dash.last[op] = "ok" => dash.slot[op] = "result"

\* one fetch of the five is still slow, one has failed, one has stored its
\* result
C19_Witness ==
  /\ dash.init = "awaiting"
  /\ dash.waiting = {"documents"}
  /\ dash.last["statistics"] = "failed"
  /\ dash.last["health"] = "ok"
  /\ dash.slot["health"] = "result"
  /\ dash.slot["documents"] = "initial"

\* C20: once a fetch operation has ended its loading flag is false; after a
\* success its slot holds the result and its error entry is cleared; after a
\* failure its slot holds the fallback value and its error entry a message.
C20_SlotErrorLoading ==
  \A op \in Operations :
    (~dash.pending[op] /\ dash.last[op] # "none") =>
      /\ ~dash.loading[op]
      /\ dash.last[op] = "ok" =>
           (dash.slot[op] = "result" /\ dash.error[op] = "none")
      /\ dash.last[op] = "failed" =>
           (dash.slot[op] = "fallback" /\ dash.error[op] = "message")

(***************************************************************************)
(* Specification of useDashboardData with slot values: the effect on       *)
(* mount, refreshData, direct calls of the fetch operations, any server    *)
(***************************************************************************)
InitHook ==
  /\ calls = [s \in Slots |-> IdleCall]
  /\ currentUser = ADMIN
  /\ authToken = NoToken
  /\ refreshToken = 0
  /\ tokenExpiryTime = 0
  /\ refreshTimer = 0
  /\ baseAuth = NoToken
  /\ ensf_auth = Absent
  /\ timers = {}
  /\ now = 0
  /\ hist = NoHist
  /\ tokenStore = NoTokens
  /\ api = IdleApi
  /\ dash = InitialDash
  /\ hook = InitialHook
  /\ facade = IdleFacade

\* the calls a step would make fit the run
CanStart(k) == totalStarted(hook) + k <= MaxStarts

\* the effect on mount; one initializeDashboard at a time
Mount ==
  /\ hook.init # "awaiting"
  /\ CanStart(Len(InitFetches))
  /\ hook' = initializeDashboardCalled(hook)

\* refreshData(dataType), from a handler of useDashboardActions or a tab
RefreshDataCalled(dataType) ==
  /\ dataType = "dashboard" => hook.init # "awaiting"
  /\ CanStart(IF dataType = "dashboard" THEN Len(InitFetches) ELSE 1)
  /\ hook' = refreshData(hook, dataType)

\* a fetch operation of the hook's interface called by the component
FetchCalled(op) ==
  /\ CanStart(1)
  /\ hook' = fetchCalled(hook, op)

FetchReturns(op, n) ==
  /\ n \in hook.inflight[op]
  /\ hook' = fetchReturns(hook, op, n)

FetchThrows(op, n) ==
  /\ n \in hook.inflight[op]
  /\ hook' = fetchThrows(hook, op, n)

\* Promise.allSettled resolves once its five promises have settled;
\* finally loading.dashboard off
AllSettled ==
  /\ hook.init = "awaiting"
  /\ hook.waiting = {}
  /\ hook' = [setOperationLoading(hook, "dashboard", FALSE) EXCEPT !.init = "done"]

NextHook ==
  /\ \/ Mount
     \/ \E dataType \in DataTypes : RefreshDataCalled(dataType)
     \/ \E op \in Operations : FetchCalled(op)
     \/ \E op \in Operations : \E n \in 1..MaxStarts : FetchReturns(op, n)
     \/ \E op \in Operations : \E n \in 1..MaxStarts : FetchThrows(op, n)
     \/ AllSettled
  /\ UNCHANGED <<authVars, calls, hist, apiVars, dash, facade>>

SpecHook == InitHook /\ [][NextHook]_vars

(***************************************************************************)
(* Properties of useDashboardData with slot values (checked under          *)
(* SpecHook)                                                               *)
(***************************************************************************)
\* C21: when the health fetch rejects while the statistics and documents
\* slots hold the results of their own fetches, combinedStatistics is
\* produced, its systemHealth is the default 'UNKNOWN', and totalClients and
\* pendingDocuments are the values those fetches resolved.
C21_RejectedHealthIsUnknown ==
  [][ ( /\ \E n \in 1..MaxStarts : FetchThrows("health", n)
        /\ slotOf(hook, "statistics").present
        /\ slotOf(hook, "documents").present )
      => LET cs == combinedStatistics(hook'.dashboardData)
         IN /\ cs.produced
            /\ cs.systemHealth = "UNKNOWN"
            /\ cs.totalClients = slotOf(hook', "statistics").n
            /\ cs.pendingDocuments = slotOf(hook', "documents").n ]_vars

\* C22: refreshData(dataType) makes one call of the fetch operation named
\* by dataType and no other, and leaves the slot, the loading flag and the
\* error entry of every other operation as they were; an unknown dataType
\* changes nothing.
C22_RefreshTouchesOneSlot ==
  [][ \A dataType \in DataTypes :
        RefreshDataCalled(dataType) =>
          /\ dataType \in Operations =>
               hook'.started[dataType] = hook.started[dataType] + 1
          /\ \A op \in Operations \ {dataType} :
               /\ hook'.started[op] = hook.started[op]
               /\ hook'.loading[op] = hook.loading[op]
               /\ hook'.error[op] = hook.error[op]
               /\ slotOf(hook', op) = slotOf(hook, op)
          /\ dataType \notin Operations => hook' = hook ]_vars

(***************************************************************************)
(* Specification of the facade operations: any operation, any answer       *)
(***************************************************************************)
InitFacade ==
  /\ calls = [s \in Slots |-> IdleCall]
  /\ currentUser = ADMIN
  /\ authToken = NoToken
  /\ refreshToken = 0
  /\ tokenExpiryTime = 0
  /\ refreshTimer = 0
  /\ baseAuth = NoToken
  /\ ensf_auth = Absent
  /\ timers = {}
  /\ now = 0
  /\ hist = NoHist
  /\ tokenStore = NoTokens
  /\ api = IdleApi
  /\ dash = InitialDash
  /\ hook = InitialHook
  /\ facade = IdleFacade

FacadeCalled(op, page, authenticated) ==
  /\ facade.pc = "idle"
  /\ facade' = facadeCalled(op, page, authenticated)

RequestSettles(outcome) ==
  /\ facade.pc = "awaiting"
  /\ facade' = [facade EXCEPT !.pc = "returned", !.outcome = outcome,
                              !.result = facadeResult(facade.op, facade.page, outcome)]

\* the caller has the result; the next call
FacadeDone ==
  /\ facade.pc = "returned"
  /\ facade' = IdleFacade

NextFacade ==
  /\ \/ \E op \in FacadeOperations, page \in 0..MaxPage, authenticated \in BOOLEAN :
          FacadeCalled(op, page, authenticated)
     \/ \E outcome \in FacadeOutcomes : RequestSettles(outcome)
     \/ FacadeDone
  /\ UNCHANGED <<authVars, calls, hist, apiVars, dash, hook>>

SpecFacade == InitFacade /\ [][NextFacade]_vars

(***************************************************************************)
(* Properties of the facade operations (checked under SpecFacade)          *)
(***************************************************************************)
\* C23: an operation of ApiService whose request resolved returns the
\* payload itself when it has a success field, and otherwise the envelope
\* {success: true, data: payload, error: null} (an error field left out
\* counts as null); normalizing the returned envelope again returns it
\* unchanged.
C23_PayloadNormalized ==
  ( /\ facade.pc = "returned"
    /\ facade.op \in FacadeOperations \ AgenceOperations
    /\ facade.outcome.kind = "resolved" )
  => LET p == facade.outcome.payload
         r == facade.result
     IN /\ ~r.threw
        /\ p.success # "absent" => r.value = p
        /\ p.success = "absent" =>
             /\ r.value.success = "true"
             /\ r.value.data.kind = "wrapped"
             /\ r.value.data.wraps = p.id
             /\ r.value.error \in {"null", "absent"}
        /\ facadeResult(facade.op, facade.page,
                        [kind |-> "resolved", payload |-> r.value]) = r

\* the listing operations of the two facades
ListingOperations ==
  {"getUsers", "getPendingDocuments", "getAllClients", "searchClients",
   "agence.getUsers", "agence.getPendingDocuments"}

\* C24: a listing operation whose request failed (unauthorized, another
\* error status, no response) does not throw and returns {success: false,
\* error: message, data: page} where the page has content [],
\* totalElements 0 and totalPages 0.
C24_ListingFallsBackToEmptyPage ==
  ( /\ facade.pc = "returned"
    /\ facade.op \in ListingOperations
    /\ facade.outcome.kind \in {"unauthorized", "http", "network"} )
  => /\ ~facade.result.threw
     /\ facade.result.value.success = "false"
     /\ facade.result.value.error = "message"
     /\ facade.result.value.data.content = "[]"
     /\ facade.result.value.data.totalElements = "0"
     /\ facade.result.value.data.totalPages = "0"

(***************************************************************************)
(* The per-attempt timeout timers of HttpClient.makeRequest (checked under *)
(* SpecHttp)                                                               *)
(***************************************************************************)
\* the attempts of a call whose setTimeout has neither fired nor been
\* cleared: the attempt in flight, and every attempt whose fetch rejected
\* without a response before the timer ran out, since clearTimeout is
\* reached only when fetch resolves
armedTimers(c) ==
  {i \in 1..Len(c.outcomes) : c.outcomes[i].kind = "network"}
    \cup (IF c.pc = "fetching" THEN {c.attempt} ELSE {})

\* C25: when makeRequest has returned or rejected, none of the timeout
\* timers of its attempts is still armed, whether the attempts ended with a
\* response, an HTTP error, a network failure or a timeout.
C25_NoTimerLeftArmed ==
  \A s \in Slots : Terminal(calls[s]) => armedTimers(calls[s]) = {}

(***************************************************************************)
(* Properties of the token-key ApiService.makeRequest (checked under       *)
(* SpecApi)                                                                *)
(***************************************************************************)
\* C26: one call of makeRequest makes at most one refresh request; and when
\* an attempt ends UNAUTHORIZED (the refresh failed, or the retried request
\* was answered 401 again) the tokens are cleared and the call returns its
\* failure at once: it does not sleep and fetch again.
C26_UnauthorizedNotLooped ==
  [][ /\ api'.refreshes <= 1
      /\ ( /\ api.pc \in {"fetching", "refreshing"}
           /\ api'.pc \notin {"fetching", "refreshing"}
           /\ api'.lastError = "UNAUTHORIZED" )
         => /\ api'.pc = "returned"
            /\ ~api'.success
            /\ tokenStore' = NoTokens ]_vars

(***************************************************************************)
(* Properties of useDashboardData under concurrent fetches (checked under  *)
(* SpecHook)                                                               *)
(***************************************************************************)
\* C27: whatever the order in which running fetches complete, a fetch that
\* resolves puts exactly its own payload into its own slot and leaves every
\* other slot as it was, and no other step changes a slot: each slot holds
\* the whole value of the latest write to it, and a write to one slot never
\* undoes a write to another.
C27_WritesKeptApart ==
  [][ /\ \A op \in Operations : \A n \in hook.inflight[op] :
           FetchReturns(op, n) =>
             /\ slotOf(hook', op) = payload(op, n)
             /\ \A other \in Operations \ {op} :
                  slotOf(hook', other) = slotOf(hook, other)
      /\ \/ hook'.dashboardData = hook.dashboardData
         \/ \E op \in Operations : \E n \in hook.inflight[op] :
              FetchReturns(op, n) ]_vars

\* three slots filled by fetches that were running together, one of them
\* written by the second fetch of its operation
C27_Witness ==
  /\ \A op \in Operations : hook.inflight[op] = {}
  /\ slotOf(hook, "health") = payload("health", 2)
  /\ slotOf(hook, "documents") = payload("documents", 1)
  /\ slotOf(hook, "statistics") = payload("statistics", 1)

(***************************************************************************)
(* Logout against requests in flight (checked under SpecAuth)              *)
(***************************************************************************)
\* C28: after logout() has run, and while no login has been started, the
\* answer of a token refresh that was in flight when logout() ran leaves
\* the session cleared: no access token, no 'ensf_auth' entry, no
\* Authorization header, no refresh timer.
C28_LogoutIsFinal ==
  [][ ( /\ hist.op = "logout"
        /\ Anonymous(World)
        /\ calls["login"].pc = "idle"
        /\ calls["refresh"].pc = "fetching"
        /\ calls'["refresh"].pc = "idle" )
      => Anonymous(World') ]_vars

(***************************************************************************)
(* Loading flags and overlapping fetches of one slot (checked under        *)
(* SpecHook)                                                               *)
(***************************************************************************)
\* C29: the loading flag of an operation is true as long as one of its
\* fetches is in flight, and loading.dashboard is true from the start of
\* initializeDashboard until all the fetches it waits for have settled.
C29_LoadingWhileInFlight ==
  /\ \A op \in Operations : hook.inflight[op] # {} => hook.loading[op]
  /\ (hook.init = "awaiting" /\ hook.waiting # {}) => hook.loading["dashboard"]

\* C30: when the slot holds the result of the most recently started fetch
\* of its operation and the response of an earlier fetch arrives
\* afterwards, the slot still holds the result of the most recently started
\* fetch.
C30_LatestStartedWins ==
  [][ \A op \in Operations : \A n \in 1..MaxStarts :
        ( /\ FetchReturns(op, n)
          /\ n < hook.started[op]
          /\ slotOf(hook, op) = payload(op, hook.started[op]) )
        => slotOf(hook', op) = payload(op, hook.started[op]) ]_vars

====
